---- MODULE Spec2Model ----
(***************************************************************************)
(* Grid navigation and backtracking planner of                             *)
(* real_time_map_and_nav_pynn.py (run_navigation_loop and its helpers).    *)
(* One action is one iteration of the "while not finish and not            *)
(* unachievable" loop.  The spiking networks and the file output are the   *)
(* external collaborators and are not part of the state.                   *)
(***************************************************************************)
EXTENDS Integers, Sequences, FiniteSets, TLC

VARIABLES
    xlength, ylength,        \* grid dimensions
    xinit, yinit,            \* start cell
    xend, yend,              \* target cell
    obstacles,               \* set of 1-based linear indices
    cellX, cellY,            \* current cell
    lastCellX, lastCellY,    \* cell departed by the last committed move
    robotPath,               \* sequence of linear indices
    backtracking,
    iterationsRepeated,
    finish, unachievable,
    final_map_state,         \* final_map_state[y][x] in 0..6
    freeCells,               \* free neighbours found by the last scan
    commands,                \* commands handed to the PPC network, in order
    deadEnds,                \* number of iterations that took the dead-end branch
    raised                   \* TRUE once direction_from_cells raised ValueError

vars == <<xlength, ylength, xinit, yinit, xend, yend, obstacles,
          cellX, cellY, lastCellX, lastCellY, robotPath, backtracking,
          iterationsRepeated, finish, unachievable, final_map_state,
          freeCells, commands, deadEnds, raised>>

config == <<xlength, ylength, xinit, yinit, xend, yend, obstacles>>

----------------------------------------------------------------------------
(* Bounds of the enumerated grids *)
MaxWidth == 3
MaxHeight == 3
MaxObstacles == 2
MaxCells == 9
CorridorLength == 202

(* Program constants *)
maxRepeatedIteration == 3
absoluteSafetyCap == 200
ValueError == -1

----------------------------------------------------------------------------
(* Pure helpers *)

Abs(n) == IF n < 0 THEN 0 - n ELSE n

Range(s) == {s[i] : i \in 1..Len(s)}

\* mutant: the row stride is the height of the grid
Position_RowStrideHeight(nx, ny) == ny * ylength + nx + 1

\* position = ny * xlength + nx + 1
Position(nx, ny) == ny * xlength + nx + 1

\* mutant: the index decoded as if it were 0-based
CellOfId_ZeroBased(id) == <<id % xlength, id \div xlength>>

\* nextCellX = (last_id - 1) % xlength ; nextCellY = (last_id - 1) // xlength
CellOfId(id) == <<(id - 1) % xlength, (id - 1) \div xlength>>

\* mutant: the obstacle list read as 0-based indices
IsObstacle_ZeroBased(position) == (position - 1) \in obstacles

IsObstacle(position) == position \in obstacles

\* distance = abs(cell[0] - target[0]) + abs(cell[1] - target[1])
Distance(cell, target) == Abs(cell[1] - target[1]) + Abs(cell[2] - target[2])

\* the loop body of manhattan_nearest_cell_to_target, cell i of cells onwards
RECURSIVE NearestLoop(_, _, _, _, _)
NearestLoop(target, cells, i, nearest_cells, nearest_distance) ==
    IF i > Len(cells) THEN nearest_cells
    ELSE LET cell == cells[i]
             distance == Distance(cell, target)
         IN IF nearest_distance = -1 \/ distance <= nearest_distance
            THEN NearestLoop(target, cells, i + 1,
                             IF distance = nearest_distance
                             THEN Append(nearest_cells, cell)
                             ELSE <<cell>>,
                             distance)
            ELSE NearestLoop(target, cells, i + 1, nearest_cells, nearest_distance)

manhattan_nearest_cell_to_target(target, cells) ==
    NearestLoop(target, cells, 1, <<>>, -1)

\* mutant: the first of the nearest cells wins
PickNearest_First(nearestCells) == nearestCells[1]

\* nearestCell = nearestCells[-1]
PickNearest(nearestCells) == nearestCells[Len(nearestCells)]

\* mutant: left and right exchanged
direction_from_cells_Swapped(last_cell, next_cell) ==
    LET cx == last_cell[1]
        cy == last_cell[2]
        nx == next_cell[1]
        ny == next_cell[2]
    IN IF ny = cy - 1 /\ nx = cx THEN 0
       ELSE IF nx = cx - 1 /\ ny = cy THEN 2
       ELSE IF nx = cx + 1 /\ ny = cy THEN 1
       ELSE IF ny = cy + 1 /\ nx = cx THEN 3
       ELSE ValueError

direction_from_cells(last_cell, next_cell) ==
    LET cx == last_cell[1]
        cy == last_cell[2]
        nx == next_cell[1]
        ny == next_cell[2]
    IN IF ny = cy - 1 /\ nx = cx THEN 0
       ELSE IF nx = cx - 1 /\ ny = cy THEN 1
       ELSE IF nx = cx + 1 /\ ny = cy THEN 2
       ELSE IF ny = cy + 1 /\ nx = cx THEN 3
       ELSE ValueError

----------------------------------------------------------------------------
(* Neighbour scan of one iteration, from the current state *)

\* the bounds test of each direction of "for direction in range(4)"
DirectionInBounds(direction) ==
    \/ direction = 0 /\ cellY - 1 >= 0
    \/ direction = 1 /\ cellX - 1 >= 0
    \/ direction = 2 /\ cellX + 1 < xlength
    \/ direction = 3 /\ cellY + 1 < ylength

NeighbourCell(direction) ==
    IF direction = 0 THEN <<cellX, cellY - 1>>
    ELSE IF direction = 1 THEN <<cellX - 1, cellY>>
    ELSE IF direction = 2 THEN <<cellX + 1, cellY>>
    ELSE <<cellX, cellY + 1>>

\* directions that are not skipped by "continue", in scan order
ScannedDirections == SelectSeq(<<0, 1, 2, 3>>, DirectionInBounds)

\* mutant: the neighbours taken as the linear indices position - xlength,
\* position - 1, position + 1 and position + xlength that exist in the grid
ScannedCells_ByIndex ==
    LET position == Position(cellX, cellY)
        InGrid(id) == id \in 1..(xlength * ylength)
        ids == SelectSeq(<<position - xlength, position - 1,
                           position + 1, position + xlength>>, InGrid)
    IN [i \in 1..Len(ids) |-> CellOfId(ids[i])]

ScannedCells == [i \in 1..Len(ScannedDirections) |-> NeighbourCell(ScannedDirections[i])]

IsObstacleCell(c) == IsObstacle(Position(c[1], c[2]))

\* mutant: the visited test also decides for obstacle cells
IsFreeCell_NoObstacleTest(c) ==
    /\ Position(c[1], c[2]) \notin Range(robotPath)
    /\ ~backtracking

\* mutant: the backtracking flag does not close the free list
IsFreeCell_IgnoresBacktracking(c) ==
    /\ ~IsObstacle(Position(c[1], c[2]))
    /\ Position(c[1], c[2]) \notin Range(robotPath)

IsFreeCell(c) ==
    /\ ~IsObstacle(Position(c[1], c[2]))
    /\ Position(c[1], c[2]) \notin Range(robotPath)
    /\ ~backtracking

ScanFreeCells == SelectSeq(ScannedCells, IsFreeCell)

ScanObstacleCells == SelectSeq(ScannedCells, IsObstacleCell)

\* mutant: every scanned neighbour that is not free is marked as an obstacle
ScanMap_NotFreeIsObstacle(free, obstacleCells) ==
    [y \in DOMAIN final_map_state |->
        [x \in DOMAIN final_map_state[y] |->
            IF <<x, y>> \in Range(ScannedCells) /\ <<x, y>> \notin free THEN 6
            ELSE IF <<x, y>> \in free /\ final_map_state[y][x] = 0 THEN 5
            ELSE final_map_state[y][x]]]

\* final_map_state after the scan: 6 on the obstacle neighbours, 5 on the
\* free neighbours that were still 0
ScanMap(free, obstacleCells) ==
    [y \in DOMAIN final_map_state |->
        [x \in DOMAIN final_map_state[y] |->
            IF <<x, y>> \in obstacleCells THEN 6
            ELSE IF <<x, y>> \in free /\ final_map_state[y][x] = 0 THEN 5
            ELSE final_map_state[y][x]]]

\* "if final_map_state[y, x] not in (1, 2): final_map_state[y, x] = 3"
MarkStep(map, x, y) ==
    IF map[y][x] \notin {1, 2} THEN [map EXCEPT ![y][x] = 3] ELSE map

\* mutant: one free neighbour is enough for a crossroad
MarkCrossroad_AnyFree(map, free, x, y) ==
    IF Len(free) > 0 THEN [map EXCEPT ![y][x] = 4] ELSE map

\* "if len(freeCells) > 1: final_map_state[lastCellY, lastCellX] = 4"
MarkCrossroad(map, free, x, y) ==
    IF Len(free) > 1 THEN [map EXCEPT ![y][x] = 4] ELSE map

\* "if cellX == xend and cellY == yend"
ReachedTarget(x, y) == x = xend /\ y = yend

\* arrival marking of step 3
MarkArrival(map, x, y) ==
    IF ReachedTarget(x, y) THEN [map EXCEPT ![y][x] = 2] ELSE MarkStep(map, x, y)

\* mutant: the dead-end branch compared against the safety cap
DeadEndLimitReached_Cap(n) == n >= absoluteSafetyCap

\* mutant: the dead-end test counts the dead ends only, not the steps
DeadEndLimitReached_OwnCounter(n) == deadEnds + 1 >= maxRepeatedIteration

\* mutant: the dead-end limit is passed, not reached
DeadEndLimitReached_Strict(n) == n > maxRepeatedIteration

\* "if iterationsRepeated >= maxRepeatedIteration"
DeadEndLimitReached(n) == n >= maxRepeatedIteration

\* mutant: the safety cap is one step late
SafetyCapReached_Late(n) == n > absoluteSafetyCap

\* "if iterationsRepeated >= 200"
SafetyCapReached(n) == n >= absoluteSafetyCap

----------------------------------------------------------------------------
(* Initial states *)

Cells(w, h) == 1..(w * h)

\* every w x h grid with up to MaxObstacles obstacles, every in-bounds start
\* and target (on an obstacle or not, equal or not)
GridConfigs(w, h) ==
    {<<w, h, xi, yi, xe, ye, obs>> :
        xi \in 0..(w - 1), yi \in 0..(h - 1),
        xe \in 0..(w - 1), ye \in 0..(h - 1),
        obs \in {o \in SUBSET Cells(w, h) : Cardinality(o) <= MaxObstacles}}

\* the grids of at most MaxCells cells
SmallGrids == {g \in (1..MaxWidth) \X (1..MaxHeight) : g[1] * g[2] <= MaxCells}

SmallConfigs == UNION {GridConfigs(g[1], g[2]) : g \in SmallGrids}

\* the configurations of "experiment" 0 to 3
Experiment0 == <<4, 4, 2, 0, 0, 3, {}>>
Experiment1 == <<4, 4, 2, 0, 0, 3, {11}>>
Experiment2 == <<6, 6, 2, 0, 5, 5, {5, 12, 15, 23, 30, 34}>>
Experiment3 == <<6, 6, 2, 0, 5, 5, {5, 9, 12, 15, 21, 23, 28, 30}>>

ExperimentConfigs == {Experiment0, Experiment1, Experiment2, Experiment3}

\* a single row longer than the safety cap, start and target at its two ends
Corridor == <<CorridorLength, 1, 0, 0, CorridorLength - 1, 0, {}>>

\* a single row whose far end is the target and is entered by command number
\* absoluteSafetyCap
CapArrival == <<absoluteSafetyCap + 1, 1, 0, 0, absoluteSafetyCap, 0, {}>>

Configs == SmallConfigs \cup ExperimentConfigs \cup {Corridor, CapArrival}

\* the configurations whose start and target cells are not obstacles
ValidConfigs ==
    {c \in Configs : /\ (c[4] * c[1] + c[3] + 1) \notin c[7]
                     /\ (c[6] * c[1] + c[5] + 1) \notin c[7]}

InitialMap(w, h, xi, yi, xe, ye) ==
    [y \in 0..(h - 1) |->
        [x \in 0..(w - 1) |->
            IF x = xe /\ y = ye THEN 2
            ELSE IF x = xi /\ y = yi THEN 1
            ELSE 0]]

Init ==
    \E c \in Configs :
        /\ xlength = c[1] /\ ylength = c[2]
        /\ xinit = c[3] /\ yinit = c[4]
        /\ xend = c[5] /\ yend = c[6]
        /\ obstacles = c[7]
        /\ final_map_state = InitialMap(c[1], c[2], c[3], c[4], c[5], c[6])
        /\ cellX = c[3] /\ cellY = c[4]
        /\ lastCellX = c[3] /\ lastCellY = c[4]
        /\ robotPath = <<c[4] * c[1] + c[3] + 1>>
        /\ backtracking = FALSE
        /\ iterationsRepeated = 0
        /\ finish = FALSE
        /\ unachievable = FALSE
        /\ freeCells = <<>>
        /\ commands = <<>>
        /\ deadEnds = 0
        /\ raised = FALSE

----------------------------------------------------------------------------
(* One iteration of the navigation loop *)

\* "while not finish and not unachievable", and no exception so far
Running == ~finish /\ ~unachievable /\ ~raised

\* steps 3 and following of the loop body: the move to next is committed, or
\* direction_from_cells raises and the run stops with what was done so far
Commit(next, free, map, path, iter) ==
    LET command == direction_from_cells(<<cellX, cellY>>, next)
    IN IF command = ValueError
       THEN /\ raised' = TRUE
            /\ robotPath' = path
            /\ iterationsRepeated' = iter
            /\ final_map_state' = map
            /\ UNCHANGED <<cellX, cellY, lastCellX, lastCellY, finish,
                           unachievable, commands>>
       ELSE /\ raised' = FALSE
            /\ lastCellX' = cellX /\ lastCellY' = cellY
            /\ cellX' = next[1] /\ cellY' = next[2]
            /\ robotPath' = Append(path, Position(next[1], next[2]))
            /\ final_map_state' =
                   MarkArrival(MarkCrossroad(map, free, cellX, cellY), next[1], next[2])
            /\ finish' = ReachedTarget(next[1], next[2])
            /\ commands' = Append(commands, command)
            /\ iterationsRepeated' = iter + 1
            /\ unachievable' = SafetyCapReached(iter + 1)

\* The results of the scan and the chosen cell are bound by \E over a
\* singleton, so that each is computed once per iteration.

\* the branch "if freeCells"
Explore ==
    /\ Running
    /\ \E free \in {ScanFreeCells} :
       \E map \in {ScanMap(Range(free), Range(ScanObstacleCells))} :
          /\ free # <<>>
          /\ \E nearestCells \in {manhattan_nearest_cell_to_target(<<xend, yend>>, free)} :
             \E nearestCell \in {PickNearest(nearestCells)} :
                Commit(nearestCell, free, MarkStep(map, cellX, cellY),
                       robotPath, iterationsRepeated)
          /\ freeCells' = free
    /\ UNCHANGED <<config, backtracking, deadEnds>>

\* the dead-end branch leaving the loop through one of its two "break"s
DeadEndStop ==
    /\ Running
    /\ \E free \in {ScanFreeCells} :
       \E map \in {ScanMap(Range(free), Range(ScanObstacleCells))} :
          /\ free = <<>>
          /\ \/ DeadEndLimitReached(iterationsRepeated + 1) /\ backtracking' = backtracking
             \/ ~DeadEndLimitReached(iterationsRepeated + 1) /\ Len(robotPath) <= 1
                /\ backtracking' = TRUE
          /\ final_map_state' = map
          /\ freeCells' = free
    /\ iterationsRepeated' = iterationsRepeated + 1
    /\ unachievable' = TRUE
    /\ deadEnds' = deadEnds + 1
    /\ UNCHANGED <<config, cellX, cellY, lastCellX, lastCellY, robotPath,
                   finish, commands, raised>>

\* the dead-end branch that pops the path and moves to the previous cell
Backtrack ==
    /\ Running
    /\ ~DeadEndLimitReached(iterationsRepeated + 1)
    /\ Len(robotPath) > 1
    /\ \E free \in {ScanFreeCells} :
       \E map \in {ScanMap(Range(free), Range(ScanObstacleCells))} :
          /\ free = <<>>
          /\ \E popped \in {SubSeq(robotPath, 1, Len(robotPath) - 1)} :
             \E last_id \in {popped[Len(popped)]} :
                Commit(CellOfId(last_id), free, map, popped, iterationsRepeated + 1)
          /\ freeCells' = free
    /\ backtracking' = TRUE
    /\ deadEnds' = deadEnds + 1
    /\ UNCHANGED config

Next == Explore \/ DeadEndStop \/ Backtrack

Spec == Init /\ [][Next]_vars

----------------------------------------------------------------------------
(* The whole program run on a valid configuration, from the module-level   *)
(* choice of the experiment on.  Before the choice there is no grid and no *)
(* navigation state.                                                       *)

Unconfigured ==
    /\ xlength = 0 /\ ylength = 0
    /\ xinit = 0 /\ yinit = 0
    /\ xend = 0 /\ yend = 0
    /\ obstacles = {}
    /\ final_map_state = <<>>
    /\ cellX = 0 /\ cellY = 0
    /\ lastCellX = 0 /\ lastCellY = 0
    /\ robotPath = <<>>
    /\ backtracking = FALSE
    /\ iterationsRepeated = 0
    /\ finish = FALSE
    /\ unachievable = FALSE
    /\ freeCells = <<>>
    /\ commands = <<>>
    /\ deadEnds = 0
    /\ raised = FALSE

\* the experiment configuration and the assignments that precede the loop
SelectExperiment ==
    /\ xlength = 0
    /\ \E c \in ValidConfigs :
        /\ xlength' = c[1] /\ ylength' = c[2]
        /\ xinit' = c[3] /\ yinit' = c[4]
        /\ xend' = c[5] /\ yend' = c[6]
        /\ obstacles' = c[7]
        /\ final_map_state' = InitialMap(c[1], c[2], c[3], c[4], c[5], c[6])
        /\ cellX' = c[3] /\ cellY' = c[4]
        /\ lastCellX' = c[3] /\ lastCellY' = c[4]
        /\ robotPath' = <<c[4] * c[1] + c[3] + 1>>
    /\ UNCHANGED <<backtracking, iterationsRepeated, finish, unachievable,
                   freeCells, commands, deadEnds, raised>>

Iterate == xlength > 0 /\ Next

ProgramNext == SelectExperiment \/ Iterate

\* the loop keeps iterating while its condition holds: nothing in the
\* single-threaded driver suspends or abandons a configured run
FairSpec == Unconfigured /\ [][ProgramNext]_vars /\ WF_vars(Iterate)

----------------------------------------------------------------------------
(* Vocabulary of the properties *)

StartId == Position(xinit, yinit)

TargetId == Position(xend, yend)

\* start and target are not obstacles (they are in bounds in every initial state)
ValidConfig == StartId \notin obstacles /\ TargetId \notin obstacles

Terminated == finish \/ unachievable

\* the experiment has been chosen
Configured == xlength > 0

Adjacent(a, b) == Abs(a[1] - b[1]) + Abs(a[2] - b[2]) = 1

\* rank of cell c in the scan order Up, Left, Right, Down around cell from
ScanRank(from, c) ==
    IF c = <<from[1], from[2] - 1>> THEN 0
    ELSE IF c = <<from[1] - 1, from[2]>> THEN 1
    ELSE IF c = <<from[1] + 1, from[2]>> THEN 2
    ELSE IF c = <<from[1], from[2] + 1>> THEN 3
    ELSE 4

TieBreakExample == <<3, 3, 1, 1, 0, 0, {}>>

----------------------------------------------------------------------------
\* C1: for every in-bounds, non-obstacle start and target the loop reaches
\* Finished or Unachievable, at most absoluteSafetyCap commands are ever
\* emitted, and Finished implies that the current cell is the target.
C1_Terminates ==
    /\ (Configured /\ ValidConfig ~> Terminated)
    /\ [](Configured /\ ValidConfig => Len(commands) <= absoluteSafetyCap)
    /\ [](Configured /\ ValidConfig /\ finish => cellX = xend /\ cellY = yend)

\* the run that is stopped by the safety cap after exactly 200 commands
C1_Witness ==
    /\ ValidConfig
    /\ unachievable /\ ~finish
    /\ Len(commands) = absoluteSafetyCap

\* C2: the last emitted command is one of 0..3 and names the displacement of
\* the move it was emitted for: 0 iff to (x, y-1), 1 iff to (x-1, y),
\* 2 iff to (x+1, y), 3 iff to (x, y+1), and the move is one of these four.
C2_CommandMatchesMove ==
    Len(commands) > 0 =>
        LET command == commands[Len(commands)]
            new == <<cellX, cellY>>
        IN /\ command \in {0, 1, 2, 3}
           /\ command = 0 <=> new = <<lastCellX, lastCellY - 1>>
           /\ command = 1 <=> new = <<lastCellX - 1, lastCellY>>
           /\ command = 2 <=> new = <<lastCellX + 1, lastCellY>>
           /\ command = 3 <=> new = <<lastCellX, lastCellY + 1>>
           /\ new \in {<<lastCellX, lastCellY - 1>>, <<lastCellX - 1, lastCellY>>,
                       <<lastCellX + 1, lastCellY>>, <<lastCellX, lastCellY + 1>>}

\* a move to the left has been committed and reported as command 1
C2_Witness ==
    /\ Len(commands) > 1
    /\ commands[Len(commands)] = 1
    /\ cellX = lastCellX - 1 /\ cellY = lastCellY

\* C3: when the start cell is not an obstacle, no entry of robotPath is in
\* the obstacle set, and the current cell is not an obstacle cell.
C3_PathAvoidsObstacles ==
    StartId \notin obstacles =>
        /\ \A i \in 1..Len(robotPath) : robotPath[i] \notin obstacles
        /\ Position(cellX, cellY) \notin obstacles

\* the navigator has moved twice, the second time backtracking, next to a
\* scanned obstacle
C3_Witness ==
    /\ StartId \notin obstacles
    /\ backtracking /\ Len(commands) = 2
    /\ \E y \in DOMAIN final_map_state : \E x \in DOMAIN final_map_state[y] :
          final_map_state[y][x] = 6 /\ Position(x, y) \in obstacles

\* C4: after a step that found free neighbours, the cell moved to is a free
\* neighbour at minimal Manhattan distance to the target, and no free
\* neighbour at that distance comes later in the scan order Up, Left, Right,
\* Down; in the 3x3 example the first command is 1 (Left).
C4_LastNearestWins ==
    /\ freeCells # <<>> =>
          LET new == <<cellX, cellY>>
              from == <<lastCellX, lastCellY>>
              target == <<xend, yend>>
          IN /\ new \in Range(freeCells)
             /\ \A f \in Range(freeCells) :
                   /\ Distance(new, target) <= Distance(f, target)
                   /\ Distance(f, target) = Distance(new, target)
                         => ScanRank(from, f) <= ScanRank(from, new)
    /\ config = TieBreakExample /\ Len(commands) >= 1 => commands[1] = 1

\* the first step of the 3x3 example: Up and Left tie, Left is taken
C4_Witness ==
    /\ config = TieBreakExample
    /\ Len(commands) = 1
    /\ <<0, 1>> \in Range(freeCells) /\ <<1, 0>> \in Range(freeCells)
    /\ <<cellX, cellY>> = <<0, 1>>

\* C5: with start # target (both off the obstacles) the output grid holds 1
\* at the start cell and 2 at the target cell in every state.
C5_StartEndKept ==
    ValidConfig /\ StartId # TargetId =>
        /\ final_map_state[yinit][xinit] = 1
        /\ final_map_state[yend][xend] = 2

\* C6: direction_from_cells never raises, and every committed move goes to a
\* cell 4-adjacent to and different from the one departed.
C6_NoAdjacencyError ==
    ValidConfig =>
        /\ ~raised
        /\ Len(commands) > 0 =>
              /\ Adjacent(<<lastCellX, lastCellY>>, <<cellX, cellY>>)
              /\ <<lastCellX, lastCellY>> # <<cellX, cellY>>

\* a backtracking move has been committed after the pop and re-append
C6_Witness ==
    /\ ValidConfig
    /\ backtracking /\ deadEnds = 1 /\ ~Terminated
    /\ Len(commands) = 2
    /\ robotPath = <<StartId, StartId>>

\* C8: experiment 1 (4x4, start (2,0), target (0,3), obstacle 11) never has
\* index 11 in the path, and when it ends it is Finished, not Unachievable,
\* with len(path) - 1 commands.
C8_Experiment1 ==
    config = Experiment1 =>
        /\ 11 \notin Range(robotPath)
        /\ ~raised
        /\ Terminated =>
              /\ finish /\ ~unachievable
              /\ Len(commands) = Len(robotPath) - 1

\* the end of the run of experiment 1
C8_Witness ==
    /\ config = Experiment1
    /\ finish
    /\ <<cellX, cellY>> = <<0, 3>>
    /\ Len(commands) = 5

\* C9: a run that hit a dead end right after its first step, on a cell that
\* is not the target, has taken the dead-end branch exactly
\* maxRepeatedIteration times when it is Unachievable.
C9_ThreeDeadEnds ==
    ValidConfig /\ unachievable /\ backtracking /\ Len(commands) = 2 =>
        deadEnds = maxRepeatedIteration

\* C10: the path has one more entry than there are commands, consecutive
\* entries decode to 4-adjacent cells, and the direction between entries i
\* and i+1 is the i-th command.
C10_PathReplaysCommands ==
    ValidConfig =>
        /\ Len(robotPath) = Len(commands) + 1
        /\ \A i \in 1..(Len(robotPath) - 1) :
              /\ Adjacent(CellOfId(robotPath[i]), CellOfId(robotPath[i + 1]))
              /\ i <= Len(commands) =>
                    direction_from_cells(CellOfId(robotPath[i]),
                                         CellOfId(robotPath[i + 1])) = commands[i]

\* C11: every cell occupied so far (the cells of the path, the current cell
\* and the cell last departed) has code 1, 2, 3 or 4 in the output grid.
C11_OccupiedCellsClassified ==
    \A id \in Range(robotPath)
              \cup {Position(cellX, cellY), Position(lastCellX, lastCellY)} :
        final_map_state[CellOfId(id)[2]][CellOfId(id)[1]] \in {1, 2, 3, 4}

\* C12: in a valid configuration a cell that holds 6 holds 6 after every
\* step, and only cells of the obstacle set hold 6.
C12_ObstaclePermanent ==
    /\ [][ValidConfig =>
            \A y \in DOMAIN final_map_state : \A x \in DOMAIN final_map_state[y] :
                final_map_state[y][x] = 6 => final_map_state'[y][x] = 6]_vars
    /\ [](ValidConfig =>
            \A y \in DOMAIN final_map_state : \A x \in DOMAIN final_map_state[y] :
                final_map_state[y][x] = 6 => Position(x, y) \in obstacles)

\* an obstacle was marked in the first iteration and two more iterations
\* have run since
C12_Witness ==
    /\ ValidConfig
    /\ iterationsRepeated >= 3
    /\ \E y \in DOMAIN final_map_state : \E x \in DOMAIN final_map_state[y] :
          /\ final_map_state[y][x] = 6
          /\ Adjacent(<<x, y>>, <<xinit, yinit>>)

\* C13: the path is never empty and its last entry is the index
\* cellY * xlength + cellX + 1 of the current cell; decoding an index as
\* ((id - 1) mod xlength, (id - 1) div xlength) undoes the encoding of every
\* cell of the grid.
C13_PathEndsAtCurrentCell ==
    /\ Len(robotPath) >= 1
    /\ robotPath[Len(robotPath)] = cellY * xlength + cellX + 1
    /\ \A x \in 0..(xlength - 1) : \A y \in 0..(ylength - 1) :
          CellOfId(Position(x, y)) = <<x, y>>

\* two moves into the inside of a grid that is not square
C13_Witness ==
    /\ xlength # ylength
    /\ Len(robotPath) >= 3
    /\ cellX > 0 /\ cellY > 0

\* C14: a configuration with the start or the target on an obstacle is
\* rejected before any step: no command is emitted, no iteration is counted
\* and no cell is classified.
C14_InvalidConfigRejected ==
    ~ValidConfig =>
        /\ commands = <<>>
        /\ iterationsRepeated = 0
        /\ final_map_state = InitialMap(xlength, ylength, xinit, yinit, xend, yend)

\* C15: a step taken with no free neighbour, with the incremented counter
\* below maxRepeatedIteration and more than one path entry, sets backtracking,
\* moves to the cell occupied before the dead-end cell, which is the cell of
\* the entry under the removed one, emits the command of that move and leaves
\* a path of the same length whose last two entries are equal.
C15_BacktrackStep ==
    [][(/\ ~finish /\ ~unachievable /\ ~raised
        /\ ScanFreeCells = <<>>
        /\ iterationsRepeated + 1 < maxRepeatedIteration
        /\ Len(robotPath) > 1)
       => LET n == Len(robotPath)
          IN /\ backtracking'
             /\ ~raised'
             /\ <<cellX', cellY'>> = <<lastCellX, lastCellY>>
             /\ robotPath[n - 1] = cellY' * xlength + cellX' + 1
             /\ Len(robotPath') = n
             /\ robotPath'[n] = robotPath[n - 1]
             /\ robotPath'[n - 1] = robotPath[n - 1]
             /\ commands' = Append(commands,
                    direction_from_cells(<<cellX, cellY>>, <<cellX', cellY'>>))
             /\ commands'[Len(commands')] \in 0..3]_vars

\* down into a dead end and back up again
C15_Witness ==
    /\ commands = <<3, 0>>
    /\ deadEnds = 1
    /\ backtracking
    /\ Len(robotPath) = 2 /\ robotPath[1] = robotPath[2]

\* C16: once backtracking is set it stays set and every later step finds an
\* empty free list, so no later step explores and none finishes by exploring.
C16_BacktrackingLatches ==
    [][backtracking => backtracking' /\ freeCells' = <<>>]_vars

\* a second dead end after the backtracking move, next to a cell that is
\* neither an obstacle nor on the path
C16_Witness ==
    /\ backtracking
    /\ deadEnds = 2
    /\ freeCells = <<>>
    /\ \E i \in 1..Len(ScannedCells) :
          /\ ~IsObstacleCell(ScannedCells[i])
          /\ Position(ScannedCells[i][1], ScannedCells[i][2]) \notin Range(robotPath)

\* C17: a step taken with no free neighbour, with the incremented counter at
\* maxRepeatedIteration or a single path entry, ends the run Unachievable
\* without a command and without changing the current cell, the previous
\* cell or the path; from a start cell with no free neighbour the run ends
\* Unachievable with no command and the start index as the whole path.
C17_DeadEndStopCommitsNothing ==
    [][/\ (/\ ~finish /\ ~unachievable /\ ~raised
           /\ ScanFreeCells = <<>>
           /\ \/ iterationsRepeated + 1 >= maxRepeatedIteration
              \/ Len(robotPath) = 1)
          => /\ unachievable' /\ ~finish'
             /\ UNCHANGED <<cellX, cellY, lastCellX, lastCellY, robotPath, commands>>
       /\ (/\ iterationsRepeated = 0 /\ ~finish /\ ~unachievable /\ ~raised
           /\ ScanFreeCells = <<>>)
          => /\ unachievable'
             /\ commands' = <<>>
             /\ robotPath' = <<yinit * xlength + xinit + 1>>]_vars

\* two exploring moves and then a dead end that reaches the limit
C17_Witness ==
    /\ unachievable
    /\ deadEnds = 1
    /\ ~backtracking
    /\ Len(commands) = 2
    /\ Len(robotPath) = 3

\* C18: an exploring step from a cell that is neither the start nor the
\* target leaves that cell as 4 when the scan found more than one free
\* neighbour and as 3 when it found exactly one; a 3 or 4 on a cell other
\* than the current cell, the start and the target never changes afterwards.
C18_DepartedCellClassified ==
    /\ [][(/\ ~finish /\ ~unachievable /\ ~raised
           /\ ScanFreeCells # <<>>
           /\ <<cellX, cellY>> # <<xinit, yinit>>
           /\ <<cellX, cellY>> # <<xend, yend>>)
          => final_map_state'[cellY][cellX] =
                 IF Len(ScanFreeCells) > 1 THEN 4 ELSE 3]_vars
    /\ [][\A y \in DOMAIN final_map_state : \A x \in DOMAIN final_map_state[y] :
            (/\ <<x, y>> \notin {<<cellX, cellY>>, <<xinit, yinit>>, <<xend, yend>>}
             /\ final_map_state[y][x] \in {3, 4})
            => final_map_state'[y][x] = final_map_state[y][x]]_vars

\* the end of experiment 2: cell (3,1) was left at a crossroad and cell (4,4)
\* with a single free neighbour, both before the last step
C18_Witness ==
    /\ config = Experiment2
    /\ finish
    /\ final_map_state[1][3] = 4
    /\ final_map_state[4][4] = 3

\* C19: the current cell is inside the grid; the free list holds only cells
\* of the grid that are 4-neighbours of the scanning cell, every index on the
\* path is an index of the grid, and a cell marked 6 is a 4-neighbour of a
\* cell that was occupied: no candidate outside the grid is used and none is
\* wrapped into another row.
C19_StaysInGrid ==
    /\ cellX \in 0..(xlength - 1) /\ cellY \in 0..(ylength - 1)
    /\ \A i \in 1..Len(freeCells) :
          /\ freeCells[i][1] \in 0..(xlength - 1)
          /\ freeCells[i][2] \in 0..(ylength - 1)
          /\ Adjacent(freeCells[i], <<lastCellX, lastCellY>>)
    /\ \A i \in 1..Len(robotPath) : robotPath[i] \in 1..(xlength * ylength)
    /\ commands # <<>> => Adjacent(<<cellX, cellY>>, <<lastCellX, lastCellY>>)
    /\ \A y \in DOMAIN final_map_state : \A x \in DOMAIN final_map_state[y] :
          final_map_state[y][x] = 6 =>
              \E id \in Range(robotPath) \cup {Position(lastCellX, lastCellY)} :
                  Adjacent(<<x, y>>, CellOfId(id))

\* a scan from the right edge: the first cell of the next row is neither an
\* obstacle nor on the path, and it is not in the free list
C19_Witness ==
    /\ freeCells # <<>>
    /\ xlength > 1
    /\ lastCellX = xlength - 1
    /\ lastCellY + 1 < ylength
    /\ Position(0, lastCellY + 1) \notin obstacles \cup Range(robotPath)
    /\ <<0, lastCellY + 1>> \notin Range(freeCells)

\* C20: finish and unachievable are never both true, also when the step that
\* enters the target is the step on which the counter reaches the cap.
C20_FinishedExcludesUnachievable == ~(finish /\ unachievable)

C22_FinishedPathIsSimpleRoute ==
    (finish /\ <<xinit, yinit>> # <<xend, yend>>) =>
        /\ robotPath[1] = yinit * xlength + xinit + 1
        /\ robotPath[Len(robotPath)] = yend * xlength + xend + 1
        /\ \A i \in 1..(Len(robotPath) - 1) :
              Adjacent(CellOfId(robotPath[i]), CellOfId(robotPath[i + 1]))
        /\ \A i \in 1..Len(robotPath) : robotPath[i] \notin obstacles
        /\ \A i, j \in 1..Len(robotPath) : robotPath[i] = robotPath[j] => i = j

====
